---- MODULE Spec2Model ----
(***************************************************************************)
(* fuyugyo: invitation-token lifecycle, JWT sessions and the shift and     *)
(* instructor server actions, modelled from the TypeScript sources.        *)
(*                                                                         *)
(* Three independent groups of state, each with its own specifications:    *)
(*   - invitation_tokens / users and the in-flight acceptInvitationAction  *)
(*     calls (SpecInvite, SpecAccept);                                     *)
(*   - the session token at hand and the wall clock in ms (SpecJwt);       *)
(*   - shifts, shift_assignments, instructors and                          *)
(*     instructor_certifications (SpecShift, SpecInstructor);              *)
(* and SpecAdmin, which calls every role-checked action on all tables.     *)
(* Four smaller parts stand beside them: the GET /api/departments/[id]     *)
(* route (SpecDepartment), the login page (SpecLogin), validateDateFormat  *)
(* (SpecDate) and the memoised calendar helpers (SpecCalendar).            *)
(***************************************************************************)
EXTENDS Integers, Sequences, FiniteSets, TLC

VARIABLES
    now,               \* wall clock of the invitation actions, in days of the year
    invitationTokens,  \* table invitation_tokens: set of rows
    users,             \* table users: set of rows, lineUserId unique
    calls,             \* in-flight acceptInvitationAction calls, one record per call
    ret,               \* the last completed server action: who called what, and its ActionResult
    shifts,            \* table shifts, (date, departmentId, shiftTypeId) unique
    shiftAssignments,  \* table shift_assignments, (shiftId, instructorId) unique
    instructors,       \* table instructors
    instructorCertifications,  \* table instructor_certifications
    shiftSeq,          \* number of shift ids handed out so far
    instructorSeq,     \* number of instructor ids handed out so far
    nowMs,             \* wall clock of the JWT functions, in ms
    jwt,               \* the session token at hand
    issued,            \* the generateJwt call that made it, if one did
    jwtRet,            \* the last verifyJwt or shouldRefreshToken call on it
    departments,       \* table departments
    findUniqueCalls,   \* the ids department.findUnique has been asked for, in order
    response,          \* the last response of GET /api/departments/[id]
    props,             \* the props LoginPageClient is rendered with
    href,              \* window.location.href
    dateString,        \* the string handed to validateDateFormat
    dateRet,           \* what validateDateFormat returned for it
    daysInMonthCache,  \* Map of getDaysInMonth
    firstDayCache,     \* Map of getFirstDayOfWeek
    utilRet            \* the last call of a calendar helper and its result

inviteVars == <<now, invitationTokens, users, calls>>
shiftVars ==
    <<shifts, shiftAssignments, instructors, instructorCertifications, shiftSeq, instructorSeq>>
jwtVars == <<nowMs, jwt, issued, jwtRet>>
routeVars == <<departments, findUniqueCalls, response>>
loginVars == <<props, href>>
dateVars == <<dateString, dateRet>>
cacheVars == <<daysInMonthCache, firstDayCache, utilRet>>
pageVars == <<routeVars, loginVars, dateVars, cacheVars>>

(***************************************************************************)
(* Bounds of the model.                                                    *)
(***************************************************************************)
StartDay == 30       \* the clock starts on this day of the year (30 = Jan 30)
MaxTicks == 2        \* the clock advances at most this many days
MaxTokens == 2       \* at most this many invitation tokens are ever created
MaxCalls == 2        \* concurrent acceptInvitationAction calls
MaxUsesLimit == 2    \* a non-null maxUses is in 1..MaxUsesLimit
MaxShiftIds == 2     \* at most this many shifts are ever created
MaxInstructors == 2  \* at most this many instructors are ever created
StartMs == 500       \* the JWT clock starts at this many ms
MaxShortTicks == 2   \* the JWT clock advances by at most this many half seconds
MaxLongTicks == 9    \* and by at most this many times six hours
MaxDefects == 1      \* a presented token differs from a genuine one in at most this many claims
MaxQueries == 2      \* department.findUnique is called at most this many times

(***************************************************************************)
(* Values.                                                                 *)
(***************************************************************************)
\* SQL NULL / an omitted optional: the empty option; a present value v is {v}.
NULL == {}
Some(v) == {v}
Val(o) == CHOOSE v \in o : TRUE

Roles == {"ADMIN", "MANAGER", "MEMBER"}
\* Who calls a server action: a session with a role, or no session at all.
Callers == Roles \cup {"ANONYMOUS"}

LineUserIds == {"U1", "U2"}
Calls == 1..MaxCalls

DEFAULT_INVITATION_EXPIRY_DAYS == 7

\* invitationConfig.tokenPrefix
tokenPrefix == "inv_"

\* A token string is its prefix followed by a random body.
TokenString(prefix, body) == [prefix |-> prefix, body |-> body]
startsWith(token, prefix) == token.prefix = prefix

\* The token strings a caller may present: well-formed ones (stored or not)
\* and one that lacks the prefix.
TokenInputs ==
    {TokenString(tokenPrefix, b) : b \in 1..MaxTokens} \cup {TokenString("xyz_", 1)}

(***************************************************************************)
(* Calendar arithmetic of Date, for one non-leap year and the start of the *)
(* next; a date is its day number counted from Jan 1 = 1.                  *)
(***************************************************************************)
DaysInMonth(m) ==
    LET mm == m % 12
    IN  IF mm = 1 THEN 28
        ELSE IF mm \in {3, 5, 8, 10} THEN 30 ELSE 31

RECURSIVE SumDaysInMonths(_)
SumDaysInMonths(m) == IF m = 0 THEN 0 ELSE SumDaysInMonths(m - 1) + DaysInMonth(m - 1)

MonthStarts == [m \in 0..24 |-> SumDaysInMonths(m)]

\* number of days before the first of month m (0 = January, 12 = next January)
DaysBeforeMonth(m) == MonthStarts[m]

\* Date.prototype.getMonth
getMonth(day) == CHOOSE m \in 0..23 : DaysBeforeMonth(m) < day /\ day <= DaysBeforeMonth(m + 1)
\* Date.prototype.getDate
getDate(day) == day - DaysBeforeMonth(getMonth(day))
\* date.setDate(date.getDate() + n): day-of-month overflow rolls into the next month
setDatePlus(day, n) == DaysBeforeMonth(getMonth(day)) + (getDate(day) + n)
\* date.setMonth(date.getMonth() + 1): the same day-of-month one month on,
\* overflowing into the month after when that month is shorter
setMonthPlusOne(day) == DaysBeforeMonth(getMonth(day) + 1) + getDate(day)

(***************************************************************************)
(* lib/auth/role-guard and lib/auth/invitations.                           *)
(***************************************************************************)
\* requireAuth(): resolves to the session user, rejects without a session.
requireAuth(caller) == caller \in Roles

\* requireManagerAuth(): rejects unless the session user is MANAGER or above.
requireManagerAuth(caller) == caller \in {"ADMIN", "MANAGER"}

ActiveTokens(tokens) == {t \in tokens : t.isActive}

\* a fresh random token string
NewToken(tokens) == TokenString(tokenPrefix, Cardinality(tokens) + 1)

\* A row of invitation_tokens. The columns description, created_by and
\* created_at are written once and read by no action; they are left out.
TokenRow(token, expiresAt, maxUses, usedCount, isActive) ==
    [token |-> token, isActive |-> isActive, expiresAt |-> expiresAt,
     maxUses |-> maxUses, usedCount |-> usedCount]

\* faulty variant: the active tokens are left active
createInvitationToken_KeepsOld(tokens, expiresAt) ==
    tokens \cup {TokenRow(NewToken(tokens), expiresAt, NULL, 0, TRUE)}

\* createInvitationToken: every active token is deactivated, then the new
\* token is inserted active with usedCount 0; the action passes no maxUses.
createInvitationToken(tokens, expiresAt) ==
    {[t EXCEPT !.isActive = FALSE] : t \in tokens}
        \cup {TokenRow(NewToken(tokens), expiresAt, NULL, 0, TRUE)}

\* deactivateInvitationToken: the named token becomes inactive.
deactivateInvitationToken(tokens, token) ==
    {IF t.token = token THEN [t EXCEPT !.isActive = FALSE] ELSE t : t \in tokens}

TokenExists(tokens, token) == \E t \in tokens : t.token = token

(***************************************************************************)
(* ActionResult                                                            *)
(***************************************************************************)
\* with the request it answers: the action and who called it
Success(op, caller) == [op |-> op, caller |-> caller, success |-> TRUE, error |-> "none"]
Failure(op, caller, error) == [op |-> op, caller |-> caller, success |-> FALSE, error |-> error]
NoRet == [op |-> "none", caller |-> "ANONYMOUS", success |-> FALSE, error |-> "none"]

(***************************************************************************)
(* createInvitationAction                                                  *)
(***************************************************************************)
\* the expiresAt a caller may send: omitted, or a date around the two limits
ExpiryInputs(today) ==
    {NULL} \cup {Some(today + d) : d \in {-1, 0, 1, 28, 29, 31, 32}}

\* expiresAt of the request, or seven days from now when omitted
resolveExpiresAt(input, today) ==
    IF input # NULL THEN Val(input) ELSE setDatePlus(today, DEFAULT_INVITATION_EXPIRY_DAYS)

\* faulty variant: an expiry equal to now is let through
expiryError_NowAllowed(expiresAt, today) ==
    IF expiresAt < today THEN "EXPIRY_NOT_FUTURE"
    ELSE IF expiresAt > setMonthPlusOne(today) THEN "EXPIRY_TOO_FAR"
    ELSE "none"

\* the validity check of the expiry: in the future, and at most one month ahead
expiryError(expiresAt, today) ==
    IF expiresAt <= today THEN "EXPIRY_NOT_FUTURE"
    ELSE IF expiresAt > setMonthPlusOne(today) THEN "EXPIRY_TOO_FAR"
    ELSE "none"

createInvitationAction(caller, input) ==
    /\ IF ~requireAuth(caller)
       THEN /\ ret' = Failure("createInvitation", caller, "UNAUTHENTICATED")
            /\ UNCHANGED invitationTokens
       ELSE IF caller # "ADMIN" /\ caller # "MANAGER"
       THEN /\ ret' = Failure("createInvitation", caller, "FORBIDDEN")
            /\ UNCHANGED invitationTokens
       ELSE LET expiresAt == resolveExpiresAt(input, now)
                err == expiryError(expiresAt, now)
            IN  IF err # "none"
                THEN /\ ret' = Failure("createInvitation", caller, err)
                     /\ UNCHANGED invitationTokens
                ELSE /\ Cardinality(invitationTokens) < MaxTokens
                     /\ invitationTokens' =
                            createInvitationToken(invitationTokens, expiresAt)
                     /\ ret' = Success("createInvitation", caller)
    /\ UNCHANGED <<now, users, calls, shiftVars, jwtVars, pageVars>>

(***************************************************************************)
(* deleteInvitationAction                                                  *)
(***************************************************************************)
deleteInvitationAction(caller, token) ==
    /\ IF ~requireAuth(caller)
       THEN /\ ret' = Failure("deleteInvitation", caller, "UNAUTHENTICATED")
            /\ UNCHANGED invitationTokens
       ELSE IF caller # "ADMIN" /\ caller # "MANAGER"
       THEN /\ ret' = Failure("deleteInvitation", caller, "FORBIDDEN")
            /\ UNCHANGED invitationTokens
       ELSE IF ~TokenExists(invitationTokens, token)
       THEN \* no row to update: deactivateInvitationToken throws or returns
            /\ ret' \in {Failure("deleteInvitation", caller, "NOT_FOUND"),
                         Success("deleteInvitation", caller)}
            /\ UNCHANGED invitationTokens
       ELSE /\ invitationTokens' = deactivateInvitationToken(invitationTokens, token)
            /\ ret' = Success("deleteInvitation", caller)
    /\ UNCHANGED <<now, users, calls, shiftVars, jwtVars, pageVars>>

\* a day passes
Tick ==
    /\ now < StartDay + MaxTicks
    /\ now' = now + 1
    /\ UNCHANGED <<invitationTokens, users, calls, ret, shiftVars, jwtVars, pageVars>>

(***************************************************************************)
(* acceptInvitationAction. The handler awaits four database calls; other   *)
(* requests run between them, so each await is a step of its own.          *)
(***************************************************************************)
IdleCall ==
    [pc |-> "idle", token |-> TokenString("xyz_", 1), lineUserId |-> "U1", now |-> 0,
     maxUses |-> NULL, result |-> "none", incremented |-> FALSE, created |-> FALSE]

\* the call returns {success: false, error}
Fail(c, error) ==
    calls' = [calls EXCEPT ![c].pc = "done", ![c].result = error, ![c].now = 0,
                           ![c].maxUses = NULL]

\* prisma.invitationToken.findUnique({ where: { token } })
findToken(tokens, token) == {t \in tokens : t.token = token}

\* prisma.user.findUnique({ where: { lineUserId } })
findUser(us, lineUserId) == {u \in us : u.lineUserId = lineUserId}

\* the checks on the stored token, in the order of the handler
\* faulty variant: a token that expires exactly now is let through
tokenError_ExpiryOffByOne(found, callNow) ==
    IF found = {} THEN "NOT_FOUND"
    ELSE LET t == Val(found)
         IN  IF ~t.isActive THEN "INACTIVE"
             ELSE IF t.expiresAt < callNow THEN "EXPIRED"
             ELSE IF t.maxUses # NULL /\ t.usedCount >= Val(t.maxUses) THEN "MAX_USES"
             ELSE "none"

tokenError(found, callNow) ==
    IF found = {} THEN "NOT_FOUND"
    ELSE LET t == Val(found)
         IN  IF ~t.isActive THEN "INACTIVE"
             ELSE IF t.expiresAt <= callNow THEN "EXPIRED"
             ELSE IF t.maxUses # NULL /\ t.usedCount >= Val(t.maxUses) THEN "MAX_USES"
             ELSE "none"

\* faulty variant: the where clause without the usedCount condition
updateManyWhere_NoCountGuard(t, token, callNow, maxUses) ==
    /\ t.token = token
    /\ t.isActive
    /\ t.expiresAt > callNow

\* the where clause of the atomic update: the limit is the maxUses read earlier
updateManyWhere(t, token, callNow, maxUses) ==
    /\ t.token = token
    /\ t.isActive
    /\ t.expiresAt > callNow
    /\ (maxUses # NULL => t.usedCount < Val(maxUses))

\* validation of the input, the clock is read once, the prefix is checked
AcceptStart(c, token, lineUserId) ==
    /\ calls[c].pc = "idle"
    /\ \A d \in Calls : d < c => calls[d].pc # "idle"
    /\ IF ~startsWith(token, tokenPrefix)
       THEN calls' = [calls EXCEPT ![c].pc = "done", ![c].result = "BAD_FORMAT",
                                   ![c].token = token, ![c].lineUserId = lineUserId]
       ELSE calls' = [calls EXCEPT ![c].pc = "findToken", ![c].token = token,
                                   ![c].lineUserId = lineUserId, ![c].now = now]
    /\ UNCHANGED <<now, invitationTokens, users, ret, shiftVars, jwtVars, pageVars>>

\* 1. the token is read and checked
AcceptFindToken(c) ==
    /\ calls[c].pc = "findToken"
    /\ LET found == findToken(invitationTokens, calls[c].token)
           err == tokenError(found, calls[c].now)
       IN  IF err # "none"
           THEN Fail(c, err)
           ELSE calls' = [calls EXCEPT ![c].pc = "findUser",
                                       ![c].maxUses = Val(found).maxUses]
    /\ UNCHANGED <<now, invitationTokens, users, ret, shiftVars, jwtVars, pageVars>>

\* 2. a user with this lineUserId must not exist yet
AcceptFindUser(c) ==
    /\ calls[c].pc = "findUser"
    /\ IF findUser(users, calls[c].lineUserId) # {}
       THEN Fail(c, "USER_EXISTS")
       ELSE calls' = [calls EXCEPT ![c].pc = "updateMany"]
    /\ UNCHANGED <<now, invitationTokens, users, ret, shiftVars, jwtVars, pageVars>>

\* 3./4. usedCount is incremented by one conditional UPDATE; no row updated is a failure
AcceptUpdateMany(c) ==
    /\ calls[c].pc = "updateMany"
    /\ LET hit == {t \in invitationTokens :
                    updateManyWhere(t, calls[c].token, calls[c].now, calls[c].maxUses)}
       IN  /\ invitationTokens' =
                {IF t \in hit THEN [t EXCEPT !.usedCount = @ + 1] ELSE t : t \in invitationTokens}
           /\ IF hit = {}
              THEN Fail(c, "NO_LONGER_USABLE")
              ELSE calls' = [calls EXCEPT ![c].pc = "createUser", ![c].incremented = TRUE]
    /\ UNCHANGED <<now, users, ret, shiftVars, jwtVars, pageVars>>

\* 5. the user is inserted; users.line_user_id is unique, a duplicate makes
\* the insert throw and the catch block return the failure
AcceptCreateUser(c) ==
    /\ calls[c].pc = "createUser"
    /\ IF findUser(users, calls[c].lineUserId) # {}
       THEN /\ Fail(c, "CREATE_FAILED")
            /\ UNCHANGED users
       ELSE /\ users' = users \cup {[lineUserId |-> calls[c].lineUserId, role |-> "MEMBER"]}
            /\ calls' = [calls EXCEPT ![c].pc = "done", ![c].result = "ok", ![c].now = 0,
                                      ![c].maxUses = NULL, ![c].created = TRUE]
    /\ UNCHANGED <<now, invitationTokens, ret, shiftVars, jwtVars, pageVars>>

(***************************************************************************)
(* lib/auth/jwt. Times are in ms since the epoch of the model's clock; the *)
(* claims iat, nbf and exp are in seconds.                                 *)
(***************************************************************************)
\* faulty variant: a threshold of one hour
REFRESH_THRESHOLD_MS_OneHour == 60 * 60 * 1000

REFRESH_THRESHOLD_MS == 6 * 60 * 60 * 1000
JWT_ISSUER == "fuyugyo"
JWT_AUDIENCE == "fuyugyo-users"

\* jwtConfig of lib/env: the signing secret and the lifetime "48h"
jwtConfig == [secret |-> "secret", expiresIn |-> [n |-> 48, unit |-> "h"]]

\* the steps of the clock: half a second, six hours
HalfSecondMs == 1000 \div 2
SixHoursMs == 6 * 60 * 60 * 1000
shortTicks == ((nowMs - StartMs) % SixHoursMs) \div HalfSecondMs
longTicks == (nowMs - StartMs) \div SixHoursMs

\* JavaScript values by type
Str(s) == [t |-> "string", s |-> s, n |-> 0]
Num(n) == [t |-> "number", s |-> "", n |-> n]
Bool(b) == [t |-> "boolean", s |-> "", n |-> IF b THEN 1 ELSE 0]

\* an object is a function from its property names; typeof obj[name]
EmptyObject == [k \in {} |-> Str("")]
typeof(obj, name) == IF name \in DOMAIN obj THEN obj[name].t ELSE "undefined"

\* the truthiness of obj[name]
truthy(obj, name) ==
    /\ name \in DOMAIN obj
    /\ LET v == obj[name]
       IN  IF v.t = "string" THEN v.s # "" ELSE v.n # 0

\* Number(v) * 1000: a string that is no numeral gives NaN; the strings of
\* the model are no numerals
timesThousand(v) ==
    IF v.t = "string" THEN [nan |-> TRUE, n |-> 0] ELSE [nan |-> FALSE, n |-> v.n * 1000]

\* the JWT claims set is serialised member by member, in this order
ClaimOrder ==
    <<"userId", "lineUserId", "displayName", "role", "isActive",
      "iat", "iss", "aud", "nbf", "exp">>

\* JSON.stringify and base64url: the object becomes a list of (name, value)
encodePayload(obj) ==
    LET names == SelectSeq(ClaimOrder, LAMBDA k : k \in DOMAIN obj)
    IN  [i \in 1..Len(names) |-> <<names[i], obj[names[i]]>>]

\* base64url and JSON.parse: the list becomes an object, a repeated name
\* keeps its last value
decodePayload(q) ==
    [k \in {q[i][1] : i \in 1..Len(q)} |->
        q[CHOOSE i \in 1..Len(q) : q[i][1] = k /\ \A j \in (i + 1)..Len(q) : q[j][1] # k][2]]

\* a compact JWS: the payload and an HMAC of it under a key
sign(payload, key) ==
    [form |-> "compact", payload |-> payload, sig |-> [key |-> key, over |-> payload]]

EmptyToken == [form |-> "empty", payload |-> <<>>, sig |-> [key |-> "", over |-> <<>>]]
GarbageToken == [form |-> "garbage", payload |-> <<>>, sig |-> [key |-> "", over |-> <<>>]]

getSecretKey == jwtConfig.secret

\* epoch(date): whole seconds
epoch(ms) == ms \div 1000

\* secs("48h")
secs(span) ==
    span.n * (IF span.unit = "h" THEN 3600 ELSE IF span.unit = "m" THEN 60 ELSE 1)

\* faulty variant: no exp claim is set
generateJwt_NoExpiry(payload, clockMs) ==
    LET claims == ("iat" :> Num(epoch(clockMs))) @@ ("iss" :> Str(JWT_ISSUER))
                    @@ ("aud" :> Str(JWT_AUDIENCE)) @@ payload
    IN  sign(encodePayload(claims), getSecretKey)

\* new SignJWT(payload) with iat, iss, aud and exp set, signed with the secret
generateJwt(payload, clockMs) ==
    LET claims == ("iat" :> Num(epoch(clockMs))) @@ ("iss" :> Str(JWT_ISSUER))
                    @@ ("aud" :> Str(JWT_AUDIENCE))
                    @@ ("exp" :> Num(epoch(clockMs) + secs(jwtConfig.expiresIn)))
                    @@ payload
    IN  sign(encodePayload(claims), getSecretKey)

Thrown(code) == [code |-> code, payload |-> EmptyObject]

\* jwtVerify(token, secret, { issuer, audience }): the signature, then the
\* claims iss, aud, iat, nbf and exp; the code of the error thrown, or "none"
jwtVerify(token, secret, clockMs) ==
    IF token.form # "compact" THEN Thrown("ERR_JWS_INVALID")
    ELSE IF token.sig.key # secret \/ token.sig.over # token.payload
    THEN Thrown("ERR_JWS_SIGNATURE_VERIFICATION_FAILED")
    ELSE LET p == decodePayload(token.payload)
             nowS == epoch(clockMs)
         IN  IF "iss" \notin DOMAIN p \/ "aud" \notin DOMAIN p
             THEN Thrown("ERR_JWT_CLAIM_VALIDATION_FAILED")
             ELSE IF p["iss"] # Str(JWT_ISSUER) \/ p["aud"] # Str(JWT_AUDIENCE)
             THEN Thrown("ERR_JWT_CLAIM_VALIDATION_FAILED")
             ELSE IF typeof(p, "iat") \notin {"undefined", "number"}
             THEN Thrown("ERR_JWT_CLAIM_VALIDATION_FAILED")
             ELSE IF typeof(p, "nbf") \notin {"undefined", "number"}
             THEN Thrown("ERR_JWT_CLAIM_VALIDATION_FAILED")
             ELSE IF typeof(p, "nbf") = "number" /\ p["nbf"].n > nowS
             THEN Thrown("ERR_JWT_CLAIM_VALIDATION_FAILED")
             ELSE IF typeof(p, "exp") \notin {"undefined", "number"}
             THEN Thrown("ERR_JWT_CLAIM_VALIDATION_FAILED")
             ELSE IF typeof(p, "exp") = "number" /\ p["exp"].n <= nowS
             THEN Thrown("ERR_JWT_EXPIRED")
             ELSE [code |-> "none", payload |-> p]

parseJwtError(code) ==
    IF code = "ERR_JWT_EXPIRED" THEN "Token has expired"
    ELSE IF code = "ERR_JWS_SIGNATURE_VERIFICATION_FAILED" THEN "Invalid token signature"
    ELSE IF code = "ERR_JWT_CLAIM_VALIDATION_FAILED" THEN "Invalid token claims"
    ELSE "Token verification failed"

\* faulty variant: the isActive value is not looked at
validateJwtPayload_SkipsActiveCheck(p) ==
    IF typeof(p, "userId") # "string" \/ typeof(p, "lineUserId") # "string"
        \/ typeof(p, "role") # "string"
    THEN "Invalid token payload: missing required fields"
    ELSE IF p["role"].s \notin {"ADMIN", "MANAGER", "MEMBER"}
    THEN "Invalid token payload: invalid role"
    ELSE IF typeof(p, "isActive") # "boolean"
    THEN "Invalid token payload: isActive must be boolean"
    ELSE "none"

\* the error of the payload, "none" for null; the payload of a decoded token
\* is always an object
validateJwtPayload(p) ==
    IF typeof(p, "userId") # "string" \/ typeof(p, "lineUserId") # "string"
        \/ typeof(p, "role") # "string"
    THEN "Invalid token payload: missing required fields"
    ELSE IF p["role"].s \notin {"ADMIN", "MANAGER", "MEMBER"}
    THEN "Invalid token payload: invalid role"
    ELSE IF typeof(p, "isActive") # "boolean"
    THEN "Invalid token payload: isActive must be boolean"
    ELSE IF p["isActive"].n = 0
    THEN "User is not active"
    ELSE "none"

JwtFailure(error) == [success |-> FALSE, error |-> error, payload |-> EmptyObject]
JwtSuccess(payload) == [success |-> TRUE, error |-> "none", payload |-> payload]

verifyJwt(token, clockMs) ==
    IF token.form = "empty" THEN JwtFailure("Token is required")
    ELSE LET verified == jwtVerify(token, getSecretKey, clockMs)
         IN  IF verified.code # "none" THEN JwtFailure(parseJwtError(verified.code))
             ELSE LET validationError == validateJwtPayload(verified.payload)
                  IN  IF validationError # "none" THEN JwtFailure(validationError)
                      ELSE JwtSuccess(verified.payload)

\* the payload is read without any check of the signature
decodeJwt(token) ==
    IF token.form = "empty" THEN JwtFailure("Token is required")
    ELSE IF token.form # "compact" THEN JwtFailure("Token decode failed")
    ELSE LET decoded == decodePayload(token.payload)
             validationError == validateJwtPayload(decoded)
         IN  IF validationError # "none" THEN JwtFailure(validationError)
             ELSE JwtSuccess(decoded)

\* expiresAt is a Date, possibly an invalid one (NaN)
getTokenExpiry(token, clockMs) ==
    LET decoded == decodeJwt(token)
    IN  IF ~(decoded.success /\ truthy(decoded.payload, "exp"))
        THEN [success |-> FALSE, expiresAt |-> [nan |-> TRUE, n |-> 0], isExpired |-> FALSE]
        ELSE LET expiresAt == timesThousand(decoded.payload["exp"])
             IN  [success |-> TRUE, expiresAt |-> expiresAt,
                  isExpired |-> ~expiresAt.nan /\ expiresAt.n < clockMs]

shouldRefreshToken(token, clockMs) ==
    LET expiry == getTokenExpiry(token, clockMs)
    IN  IF ~expiry.success THEN TRUE
        ELSE IF expiry.isExpired THEN TRUE
        ELSE ~expiry.expiresAt.nan /\ expiry.expiresAt.n < clockMs + REFRESH_THRESHOLD_MS

\* the record of the last call on the token at hand
NoJwtRet ==
    [op |-> "none", at |-> 0, success |-> FALSE, error |-> "none",
     payload |-> EmptyObject, refresh |-> FALSE]
NoIssue == [done |-> FALSE, at |-> 0, payload |-> EmptyObject]

\* the payloads a session is issued for
PayloadInputs ==
    {[userId |-> Str("u1"), lineUserId |-> Str("L1"), displayName |-> Str(name),
      role |-> Str(role), isActive |-> Bool(active)] :
        name \in {"", "taro"}, role \in {"ADMIN", "MEMBER"}, active \in BOOLEAN}

\* a session is issued; the clock of the model must be able to pass its expiry
GenerateJwt(payload) ==
    /\ jwt = EmptyToken
    /\ nowMs + secs(jwtConfig.expiresIn) * 1000 < StartMs + MaxLongTicks * SixHoursMs
    /\ jwt' = generateJwt(payload, nowMs)
    /\ issued' = [done |-> TRUE, at |-> nowMs, payload |-> payload]
    /\ jwtRet' = NoJwtRet
    /\ UNCHANGED <<nowMs, inviteVars, ret, shiftVars, pageVars>>

\* what a token made elsewhere may differ in from a token of this server:
\* a claim is missing, or has another value
Defect(name, drop, value) == [name |-> name, drop |-> drop, value |-> value]
Defects ==
    {Defect(name, TRUE, Str("")) : name \in {"userId", "role", "isActive", "iss", "aud", "exp"}}
        \cup {Defect("lineUserId", FALSE, Num(7)), Defect("role", FALSE, Str("GUEST")),
              Defect("isActive", FALSE, Bool(FALSE)), Defect("isActive", FALSE, Str("true")),
              Defect("iss", FALSE, Str("evil")), Defect("aud", FALSE, Str("other")),
              Defect("exp", FALSE, Str("soon")), Defect("exp", FALSE, Num(0)),
              Defect("exp", FALSE, Num(1)), Defect("nbf", FALSE, Num(1)),
              Defect("iat", FALSE, Str("x"))}

DefectSets ==
    {ds \in SUBSET Defects :
        /\ Cardinality(ds) <= MaxDefects
        /\ \A d, e \in ds : d.name = e.name => d = e}

applyDefects(obj, ds) ==
    LET dropped == {d.name : d \in {e \in ds : e.drop}}
        set == {d.name : d \in {e \in ds : ~e.drop}}
    IN  [k \in (DOMAIN obj \cup set) \ dropped |->
            IF k \in set THEN (CHOOSE d \in ds : d.name = k).value ELSE obj[k]]

\* the claims of a well-formed session token that expires 48 hours after the
\* start of the clock
BaseClaims ==
    ("iat" :> Num(epoch(StartMs))) @@ ("iss" :> Str(JWT_ISSUER)) @@ ("aud" :> Str(JWT_AUDIENCE))
        @@ ("exp" :> Num(epoch(StartMs) + secs(jwtConfig.expiresIn)))
        @@ [userId |-> Str("u1"), lineUserId |-> Str("L1"), displayName |-> Str("taro"),
            role |-> Str("MEMBER"), isActive |-> Bool(TRUE)]

\* the tokens a client may present: not a JWS at all, signed with the secret,
\* signed with another key, or altered after signing
PresentedTokens ==
    {GarbageToken}
        \cup {sign(encodePayload(applyDefects(BaseClaims, ds)), key) :
                ds \in DefectSets, key \in {getSecretKey, "other"}}
        \cup {[sign(encodePayload(BaseClaims), getSecretKey)
                    EXCEPT !.payload = encodePayload(applyDefects(BaseClaims, ds))] :
                ds \in DefectSets}

PresentJwt(token) ==
    /\ jwt = EmptyToken
    /\ jwt' = token
    /\ issued' = NoIssue
    /\ jwtRet' = NoJwtRet
    /\ UNCHANGED <<nowMs, inviteVars, ret, shiftVars, pageVars>>

VerifyJwt ==
    /\ LET result == verifyJwt(jwt, nowMs)
       IN  jwtRet' = [op |-> "verifyJwt", at |-> nowMs, success |-> result.success,
                      error |-> result.error, payload |-> result.payload, refresh |-> FALSE]
    /\ UNCHANGED <<nowMs, jwt, issued, inviteVars, ret, shiftVars, pageVars>>

ShouldRefreshToken ==
    /\ jwtRet' = [op |-> "shouldRefreshToken", at |-> nowMs, success |-> FALSE,
                  error |-> "none", payload |-> EmptyObject,
                  refresh |-> shouldRefreshToken(jwt, nowMs)]
    /\ UNCHANGED <<nowMs, jwt, issued, inviteVars, ret, shiftVars, pageVars>>

\* half a second passes
TickHalfSecond ==
    /\ shortTicks < MaxShortTicks
    /\ nowMs' = nowMs + HalfSecondMs
    /\ UNCHANGED <<jwt, issued, jwtRet, inviteVars, ret, shiftVars, pageVars>>

\* six hours pass
TickSixHours ==
    /\ longTicks < MaxLongTicks
    /\ nowMs' = nowMs + SixHoursMs
    /\ UNCHANGED <<jwt, issued, jwtRet, inviteVars, ret, shiftVars, pageVars>>

(***************************************************************************)
(* Shifts and instructors. Every handler runs to completion as one step.   *)
(***************************************************************************)
\* shifts are planned on two dates
Dates == {1, 2}
DepartmentIds == {"d1"}
ShiftTypeIds == {"t1"}
CertificationIds == {"c1"}
Descriptions == {"a", "b"}
LastNames == {"x", "y"}
Statuses == {"ACTIVE", "INACTIVE"}

ShiftIdInputs == 1..MaxShiftIds
\* instructor ids a request may name; the last one is never on file
InstructorIdInputs == 1..(MaxInstructors + 1)
\* certification ids a request may name: a stored one and one that is not stored
CertificationIdInputs == CertificationIds \cup {"c9"}

\* the lists of ids a request may carry: empty, one id, two ids (also twice the same)
ListsOf(S) == {<<>>} \cup {<<a>> : a \in S} \cup {<<a, b>> : a, b \in S}

\* assignedInstructorIds of a request: instructors 1 and 2 may be on file when
\* shifts are planned, 3 never is
InstructorIdLists == {<<>>, <<1>>, <<2>>, <<1, 2>>, <<1, 1>>, <<3>>, <<2, 3>>}
CertificationIdLists == ListsOf(CertificationIdInputs)

Range(q) == {q[i] : i \in 1..Len(q)}
HasDuplicates(q) == Cardinality(Range(q)) < Len(q)

\* shift.findUnique({ where: { unique_shift_per_day: { date, departmentId, shiftTypeId } } })
findShiftPerDay(date, departmentId, shiftTypeId) ==
    {s \in shifts : s.date = date /\ s.departmentId = departmentId /\ s.shiftTypeId = shiftTypeId}

findShiftById(id) == {s \in shifts : s.id = id}
findInstructorById(id) == {i \in instructors : i.id = id}

\* the rows shiftAssignment.createMany would insert
assignmentRows(shiftId, instructorIds) ==
    {[shiftId |-> shiftId, instructorId |-> i] : i \in Range(instructorIds)}

\* the INSERT fails as a whole on a duplicate (shift_id, instructor_id) or on
\* an instructor_id without its instructor
createManyAssignmentsFails(existingRows, shiftId, instructorIds) ==
    \/ HasDuplicates(instructorIds)
    \/ assignmentRows(shiftId, instructorIds) \cap existingRows # {}
    \/ \E i \in Range(instructorIds) : findInstructorById(i) = {}

\* faulty variant: nothing is inserted and no error is reported
createInstructorAssignments_SkipsInsert(existingRows, shiftId, instructorIds) ==
    [error |-> "none", rows |-> existingRows]

\* createInstructorAssignments: null on success, the error message otherwise;
\* nothing is inserted for an empty list
createInstructorAssignments(existingRows, shiftId, instructorIds) ==
    IF Len(instructorIds) > 0 /\ createManyAssignmentsFails(existingRows, shiftId, instructorIds)
    THEN [error |-> "ASSIGNMENT_FAILED", rows |-> existingRows]
    ELSE [error |-> "none", rows |-> existingRows \cup assignmentRows(shiftId, instructorIds)]

\* the duplicate check: a shift exists for the day and force is not set
\* faulty variant: the existing shift is not looked at
isDuplicateShift_IgnoresExisting(existingShift, force) == FALSE

isDuplicateShift(existingShift, force) == existingShift # {} /\ ~force

createShiftAction(caller, date, departmentId, shiftTypeId, description, force, assignedInstructorIds) ==
    LET existingShift == findShiftPerDay(date, departmentId, shiftTypeId)
    IN
    /\ IF ~requireManagerAuth(caller)
       THEN /\ ret' = Failure("createShift", caller, "UNAUTHORIZED")
            /\ UNCHANGED <<shifts, shiftAssignments, shiftSeq>>
       ELSE IF isDuplicateShift(existingShift, force)
       THEN /\ ret' = Failure("createShift", caller, "DUPLICATE_SHIFT")
            /\ UNCHANGED <<shifts, shiftAssignments, shiftSeq>>
       ELSE IF existingShift # {} /\ force
       THEN LET old == Val(existingShift)
                updated == [old EXCEPT !.description =
                                IF description # NULL THEN description ELSE old.description]
                kept == {a \in shiftAssignments : a.shiftId # old.id}
                res == createInstructorAssignments(kept, old.id, assignedInstructorIds)
            IN  /\ shifts' = (shifts \ {old}) \cup {updated}
                /\ shiftAssignments' = res.rows
                /\ UNCHANGED shiftSeq
                /\ ret' = IF res.error # "none" THEN Failure("createShift", caller, res.error)
                          ELSE Success("createShift", caller)
       ELSE IF existingShift # {}
       THEN \* shift.create violates the unique index and throws
            /\ ret' = Failure("createShift", caller, "UNIQUE_CONSTRAINT")
            /\ UNCHANGED <<shifts, shiftAssignments, shiftSeq>>
       ELSE LET id == shiftSeq + 1
                res == createInstructorAssignments(shiftAssignments, id, assignedInstructorIds)
            IN  /\ shiftSeq < MaxShiftIds
                /\ shiftSeq' = id
                /\ shifts' = shifts \cup
                        {[id |-> id, date |-> date, departmentId |-> departmentId,
                          shiftTypeId |-> shiftTypeId, description |-> description]}
                /\ shiftAssignments' = res.rows
                /\ ret' = IF res.error # "none" THEN Failure("createShift", caller, res.error)
                          ELSE Success("createShift", caller)
    /\ UNCHANGED <<jwtVars, inviteVars, pageVars, instructors, instructorCertifications, instructorSeq>>

\* description: NULL leaves the column alone; assignedInstructorIds: NULL
\* (not sent) leaves the assignments alone
updateShiftAction(caller, id, description, assignedInstructorIds) ==
    /\ IF ~requireManagerAuth(caller)
       THEN /\ ret' = Failure("updateShift", caller, "UNAUTHORIZED")
            /\ UNCHANGED <<shifts, shiftAssignments>>
       ELSE IF findShiftById(id) = {}
       THEN /\ ret' = Failure("updateShift", caller, "NOT_FOUND")
            /\ UNCHANGED <<shifts, shiftAssignments>>
       ELSE LET old == Val(findShiftById(id))
                updated == IF description # NULL THEN [old EXCEPT !.description = description]
                           ELSE old
            IN  /\ shifts' = (shifts \ {old}) \cup {updated}
                /\ IF assignedInstructorIds = NULL
                   THEN /\ UNCHANGED shiftAssignments
                        /\ ret' = Success("updateShift", caller)
                   ELSE LET kept == {a \in shiftAssignments : a.shiftId # id}
                            res == createInstructorAssignments(kept, id, Val(assignedInstructorIds))
                        IN  /\ shiftAssignments' = res.rows
                            /\ ret' = IF res.error # "none"
                                      THEN Failure("updateShift", caller, res.error)
                                      ELSE Success("updateShift", caller)
    /\ UNCHANGED <<jwtVars, inviteVars, pageVars, shiftSeq, instructors, instructorCertifications, instructorSeq>>

\* faulty variant: requireManagerAuth is not called
deleteShiftAction_NoAuthCheck(caller, id) ==
    /\ IF findShiftById(id) = {}
       THEN /\ ret' = Failure("deleteShift", caller, "NOT_FOUND")
            /\ UNCHANGED <<shifts, shiftAssignments>>
       ELSE /\ shifts' = shifts \ findShiftById(id)
            /\ shiftAssignments' = {a \in shiftAssignments : a.shiftId # id}
            /\ ret' = Success("deleteShift", caller)
    /\ UNCHANGED <<jwtVars, inviteVars, pageVars, shiftSeq, instructors, instructorCertifications, instructorSeq>>

\* faulty variant: the shift row is deleted and its assignments stay behind
deleteShiftAction_NoCascade(caller, id) ==
    /\ IF ~requireManagerAuth(caller)
       THEN /\ ret' = Failure("deleteShift", caller, "UNAUTHORIZED")
            /\ UNCHANGED <<shifts, shiftAssignments>>
       ELSE IF findShiftById(id) = {}
       THEN /\ ret' = Failure("deleteShift", caller, "NOT_FOUND")
            /\ UNCHANGED <<shifts, shiftAssignments>>
       ELSE /\ shifts' = shifts \ findShiftById(id)
            /\ UNCHANGED shiftAssignments
            /\ ret' = Success("deleteShift", caller)
    /\ UNCHANGED <<jwtVars, inviteVars, pageVars, shiftSeq, instructors, instructorCertifications, instructorSeq>>

\* shift.delete; shift_assignments.shift_id is ON DELETE CASCADE
deleteShiftAction(caller, id) ==
    /\ IF ~requireManagerAuth(caller)
       THEN /\ ret' = Failure("deleteShift", caller, "UNAUTHORIZED")
            /\ UNCHANGED <<shifts, shiftAssignments>>
       ELSE IF findShiftById(id) = {}
       THEN /\ ret' = Failure("deleteShift", caller, "NOT_FOUND")
            /\ UNCHANGED <<shifts, shiftAssignments>>
       ELSE /\ shifts' = shifts \ findShiftById(id)
            /\ shiftAssignments' = {a \in shiftAssignments : a.shiftId # id}
            /\ ret' = Success("deleteShift", caller)
    /\ UNCHANGED <<jwtVars, inviteVars, pageVars, shiftSeq, instructors, instructorCertifications, instructorSeq>>

certificationRows(instructorId, certificationIds) ==
    {[instructorId |-> instructorId, certificationId |-> c] : c \in Range(certificationIds)}

\* instructorCertification.createMany fails as a whole on a duplicate pair or
\* on a certification_id without its certification
createManyCertificationsFails(existingRows, instructorId, certificationIds) ==
    \/ HasDuplicates(certificationIds)
    \/ certificationRows(instructorId, certificationIds) \cap existingRows # {}
    \/ \E c \in Range(certificationIds) : c \notin CertificationIds

linkCertifications(existingRows, instructorId, certificationIds) ==
    IF Len(certificationIds) > 0
        /\ createManyCertificationsFails(existingRows, instructorId, certificationIds)
    THEN [error |-> "CERTIFICATION_FAILED", rows |-> existingRows]
    ELSE [error |-> "none",
          rows |-> existingRows \cup certificationRows(instructorId, certificationIds)]

createInstructorAction(caller, lastName, status, certificationIds) ==
    /\ IF ~requireManagerAuth(caller)
       THEN /\ ret' = Failure("createInstructor", caller, "UNAUTHORIZED")
            /\ UNCHANGED <<instructors, instructorCertifications, instructorSeq>>
       ELSE LET id == instructorSeq + 1
                res == linkCertifications(instructorCertifications, id, certificationIds)
            IN  /\ instructorSeq < MaxInstructors
                /\ instructorSeq' = id
                /\ instructors' = instructors \cup
                        {[id |-> id, lastName |-> lastName, status |-> status]}
                /\ instructorCertifications' = res.rows
                /\ ret' = IF res.error # "none" THEN Failure("createInstructor", caller, res.error)
                          ELSE Success("createInstructor", caller)
    /\ UNCHANGED <<jwtVars, inviteVars, pageVars, shifts, shiftAssignments, shiftSeq>>

updateInstructorAction(caller, id, lastName, status, certificationIds) ==
    /\ IF ~requireManagerAuth(caller)
       THEN /\ ret' = Failure("updateInstructor", caller, "UNAUTHORIZED")
            /\ UNCHANGED <<instructors, instructorCertifications>>
       ELSE IF findInstructorById(id) = {}
       THEN /\ ret' = Failure("updateInstructor", caller, "NOT_FOUND")
            /\ UNCHANGED <<instructors, instructorCertifications>>
       ELSE LET old == Val(findInstructorById(id))
                kept == {r \in instructorCertifications : r.instructorId # id}
                res == linkCertifications(kept, id, certificationIds)
            IN  /\ instructors' = (instructors \ {old}) \cup
                        {[old EXCEPT !.lastName = lastName, !.status = status]}
                /\ instructorCertifications' = res.rows
                /\ ret' = IF res.error # "none" THEN Failure("updateInstructor", caller, res.error)
                          ELSE Success("updateInstructor", caller)
    /\ UNCHANGED <<jwtVars, inviteVars, pageVars, shifts, shiftAssignments, shiftSeq, instructorSeq>>

\* faulty variant: the instructor row is deleted, and with it (by the cascading
\* foreign keys) its certification links and its shift assignments
deleteInstructorAction_Physical(caller, id) ==
    /\ IF ~requireManagerAuth(caller)
       THEN /\ ret' = Failure("deleteInstructor", caller, "UNAUTHORIZED")
            /\ UNCHANGED <<instructors, instructorCertifications, shiftAssignments>>
       ELSE IF findInstructorById(id) = {}
       THEN /\ ret' = Failure("deleteInstructor", caller, "NOT_FOUND")
            /\ UNCHANGED <<instructors, instructorCertifications, shiftAssignments>>
       ELSE /\ instructors' = instructors \ findInstructorById(id)
            /\ instructorCertifications' = {r \in instructorCertifications : r.instructorId # id}
            /\ shiftAssignments' = {a \in shiftAssignments : a.instructorId # id}
            /\ ret' = Success("deleteInstructor", caller)
    /\ UNCHANGED <<jwtVars, inviteVars, pageVars, shifts, shiftSeq, instructorSeq>>

\* logical deletion: instructor.update({ where: { id }, data: { status: "INACTIVE" } })
deleteInstructorAction(caller, id) ==
    /\ IF ~requireManagerAuth(caller)
       THEN /\ ret' = Failure("deleteInstructor", caller, "UNAUTHORIZED")
            /\ UNCHANGED instructors
       ELSE IF findInstructorById(id) = {}
       THEN /\ ret' = Failure("deleteInstructor", caller, "NOT_FOUND")
            /\ UNCHANGED instructors
       ELSE LET old == Val(findInstructorById(id))
            IN  /\ instructors' = (instructors \ {old}) \cup {[old EXCEPT !.status = "INACTIVE"]}
                /\ ret' = Success("deleteInstructor", caller)
    /\ UNCHANGED <<jwtVars, inviteVars, pageVars, shifts, shiftAssignments, shiftSeq,
                   instructorCertifications, instructorSeq>>

(***************************************************************************)
(* GET /api/departments/[id]                                               *)
(***************************************************************************)
\* what authenticateFromRequest resolves to
AuthResults ==
    {[success |-> TRUE, error |-> NULL]}
        \cup {[success |-> FALSE, error |-> Some(e)] :
                e \in {"Authentication required", "Invalid token"}}

DepartmentRows ==
    {[id |-> "dept-1", code |-> "ski", name |-> "ski"],
     [id |-> "dept-2", code |-> "snowboard", name |-> "snowboard"]}

\* params.id: empty, the id of a row that may be stored, an id never stored
DepartmentIdInputs == {"", "dept-1", "dept-2", "dept-9"}

\* ApiResponse<T> with its HTTP status
ApiResponse(status, success, data, error) ==
    [status |-> status, success |-> success, data |-> data, message |-> NULL, error |-> error]

\* department.findUnique({ where: { id } })
findDepartment(id) == {d \in departments : d.id = id}

\* faulty variant: the database is asked before the id is looked at
GET_QueriesEmptyId(auth, id, dbFails) ==
    /\ IF ~auth.success
       THEN /\ response' = ApiResponse(401, FALSE, NULL, auth.error)
            /\ UNCHANGED findUniqueCalls
       ELSE /\ findUniqueCalls' = Append(findUniqueCalls, id)
            /\ response' =
                 IF dbFails THEN ApiResponse(500, FALSE, NULL, Some("Internal server error"))
                 ELSE IF findDepartment(id) = {}
                 THEN ApiResponse(404, FALSE, NULL, Some("Resource not found"))
                 ELSE ApiResponse(200, TRUE, findDepartment(id), NULL)
    /\ UNCHANGED <<departments, inviteVars, ret, shiftVars, jwtVars, loginVars, dateVars, cacheVars>>

\* the route handler: authentication, then the id, then the query; dbFails
\* says whether findUnique rejects
GET(auth, id, dbFails) ==
    /\ IF ~auth.success
       THEN /\ response' = ApiResponse(401, FALSE, NULL, auth.error)
            /\ UNCHANGED findUniqueCalls
       ELSE IF id = ""
       THEN /\ response' = ApiResponse(404, FALSE, NULL, Some("Resource not found"))
            /\ UNCHANGED findUniqueCalls
       ELSE /\ findUniqueCalls' = Append(findUniqueCalls, id)
            /\ response' =
                 IF dbFails THEN ApiResponse(500, FALSE, NULL, Some("Internal server error"))
                 ELSE IF findDepartment(id) = {}
                 THEN ApiResponse(404, FALSE, NULL, Some("Resource not found"))
                 ELSE ApiResponse(200, TRUE, findDepartment(id), NULL)
    /\ UNCHANGED <<departments, inviteVars, ret, shiftVars, jwtVars, loginVars, dateVars, cacheVars>>

(***************************************************************************)
(* The login page. Strings are sequences of characters.                    *)
(***************************************************************************)
LOGIN_PATH ==
    <<"/", "a", "p", "i", "/", "a", "u", "t", "h", "/", "l", "i", "n", "e", "/",
      "l", "o", "g", "i", "n">>
REDIRECT == <<"r", "e", "d", "i", "r", "e", "c", "t">>
INVITE == <<"i", "n", "v", "i", "t", "e">>

\* the characters URLSearchParams escapes, with their two hex digits
PercentCodes ==
    [c \in {"/", "?", "=", "&", "+", "%"} |->
        CASE c = "/" -> <<"2", "F">>
          [] c = "?" -> <<"3", "F">>
          [] c = "=" -> <<"3", "D">>
          [] c = "&" -> <<"2", "6">>
          [] c = "+" -> <<"2", "B">>
          [] c = "%" -> <<"2", "5">>]

\* URLSearchParams.toString on one name or value: a space becomes "+", an
\* escaped character "%XX", letters, digits and * - . _ stay
RECURSIVE formUrlEncode(_)
formUrlEncode(str) ==
    IF str = <<>> THEN <<>>
    ELSE LET c == Head(str)
             enc == IF c = " " THEN <<"+">>
                    ELSE IF c \in DOMAIN PercentCodes THEN <<"%">> \o PercentCodes[c]
                    ELSE <<c>>
         IN  enc \o formUrlEncode(Tail(str))

\* the reverse, as URL.searchParams reads a name or value
RECURSIVE formUrlDecode(_)
formUrlDecode(str) ==
    IF str = <<>> THEN <<>>
    ELSE IF Head(str) = "+" THEN <<" ">> \o formUrlDecode(Tail(str))
    ELSE IF /\ Head(str) = "%"
            /\ Len(str) >= 3
            /\ \E c \in DOMAIN PercentCodes : PercentCodes[c] = <<str[2], str[3]>>
    THEN <<CHOOSE c \in DOMAIN PercentCodes : PercentCodes[c] = <<str[2], str[3]>>>>
            \o formUrlDecode(SubSeq(str, 4, Len(str)))
    ELSE <<Head(str)>> \o formUrlDecode(Tail(str))

\* the position of the first c in str, 0 when there is none
indexOf(str, c) ==
    IF \E i \in 1..Len(str) : str[i] = c
    THEN CHOOSE i \in 1..Len(str) : str[i] = c /\ \A j \in 1..(i - 1) : str[j] # c
    ELSE 0

RECURSIVE split(_, _)
split(str, c) ==
    IF indexOf(str, c) = 0 THEN <<str>>
    ELSE <<SubSeq(str, 1, indexOf(str, c) - 1)>>
            \o split(SubSeq(str, indexOf(str, c) + 1, Len(str)), c)

\* new URL(href, base).pathname and .search without its "?"
pathname(url) == IF indexOf(url, "?") = 0 THEN url ELSE SubSeq(url, 1, indexOf(url, "?") - 1)
search(url) == IF indexOf(url, "?") = 0 THEN <<>> ELSE SubSeq(url, indexOf(url, "?") + 1, Len(url))

\* the name=value pairs of a query string, decoded
searchParams(query) ==
    LET pairs == SelectSeq(split(query, "&"), LAMBDA q : q # <<>>)
        name(q) == IF indexOf(q, "=") = 0 THEN q ELSE SubSeq(q, 1, indexOf(q, "=") - 1)
        value(q) == IF indexOf(q, "=") = 0 THEN <<>> ELSE SubSeq(q, indexOf(q, "=") + 1, Len(q))
    IN  [i \in 1..Len(pairs) |->
            [name |-> formUrlDecode(name(pairs[i])), value |-> formUrlDecode(value(pairs[i]))]]

\* URLSearchParams.get: the value of the first pair of that name, or null
searchParamsGet(params, name) ==
    IF \E i \in 1..Len(params) : params[i].name = name
    THEN Some(params[CHOOSE i \in 1..Len(params) :
                        /\ params[i].name = name
                        /\ \A j \in 1..(i - 1) : params[j].name # name].value)
    ELSE NULL

\* URLSearchParams.toString
paramsToString(params) ==
    LET RECURSIVE join(_)
        join(i) ==
            IF i > Len(params) THEN <<>>
            ELSE (IF i > 1 THEN <<"&">> ELSE <<>>)
                    \o formUrlEncode(params[i].name) \o <<"=">> \o formUrlEncode(params[i].value)
                    \o join(i + 1)
    IN  join(1)

\* redirectUrl = "/" when the prop is not given
DEFAULT_REDIRECT_URL == <<"/">>

\* faulty variant: the invitation token is not handed on
handleLineLogin_DropsInvite ==
    LET redirectUrl == IF props.redirectUrl = NULL THEN DEFAULT_REDIRECT_URL
                       ELSE Val(props.redirectUrl)
        params == <<[name |-> REDIRECT, value |-> redirectUrl]>>
    IN  /\ href' = LOGIN_PATH \o <<"?">> \o paramsToString(params)
        /\ UNCHANGED <<props, inviteVars, ret, shiftVars, jwtVars, routeVars, dateVars, cacheVars>>

\* a click on the LINE login button
handleLineLogin ==
    LET redirectUrl == IF props.redirectUrl = NULL THEN DEFAULT_REDIRECT_URL
                       ELSE Val(props.redirectUrl)
        params == <<[name |-> REDIRECT, value |-> redirectUrl]>>
                    \o (IF props.inviteToken # NULL
                        THEN <<[name |-> INVITE, value |-> Val(props.inviteToken)]>>
                        ELSE <<>>)
    IN  /\ href' = LOGIN_PATH \o <<"?">> \o paramsToString(params)
        /\ UNCHANGED <<props, inviteVars, ret, shiftVars, jwtVars, routeVars, dateVars, cacheVars>>

\* render(<LoginPageClient inviteToken=... redirectUrl=... />)
render(inviteToken, redirectUrl) ==
    /\ props' = [inviteToken |-> inviteToken, redirectUrl |-> redirectUrl]
    /\ UNCHANGED <<href, inviteVars, ret, shiftVars, jwtVars, routeVars, dateVars, cacheVars>>

(***************************************************************************)
(* Date objects. A Date made from (year, monthIndex, day) is held as its   *)
(* day number, the days since 1970-01-01 in local time.                    *)
(***************************************************************************)
IsLeapYear(y) == (y % 4 = 0 /\ y % 100 # 0) \/ y % 400 = 0

\* the day number of January 1st of year y
DayFromYear(y) ==
    365 * (y - 1970) + ((y - 1969) \div 4) - ((y - 1901) \div 100) + ((y - 1601) \div 400)

\* days of month index mn (0 = January) in year y
DaysOfMonth(y, mn) ==
    IF mn = 1 THEN (IF IsLeapYear(y) THEN 29 ELSE 28)
    ELSE IF mn \in {3, 5, 8, 10} THEN 30 ELSE 31

RECURSIVE DayWithinYear(_, _)
DayWithinYear(y, mn) == IF mn = 0 THEN 0 ELSE DayWithinYear(y, mn - 1) + DaysOfMonth(y, mn - 1)

\* new Date(year, monthIndex, day): a year of 0..99 means 1900 + year; a month
\* index outside 0..11 and a day outside the month carry over
NewDate(year, monthIndex, day) ==
    LET yr == IF 0 <= year /\ year <= 99 THEN 1900 + year ELSE year
        ym == yr + (monthIndex \div 12)
        mn == monthIndex % 12
    IN  DayFromYear(ym) + DayWithinYear(ym, mn) + day - 1

\* Date.prototype.getFullYear
YearFromTime(t) ==
    LET a == 1970 + (t \div 365)
        b == 1970 + (t \div 366)
    IN  CHOOSE y \in ((IF a < b THEN a ELSE b) - 1)..((IF a < b THEN b ELSE a) + 1) :
            DayFromYear(y) <= t /\ t < DayFromYear(y + 1)

\* Date.prototype.getMonth
MonthFromTime(t) ==
    LET y == YearFromTime(t)
        d == t - DayFromYear(y)
    IN  CHOOSE mn \in 0..11 : DayWithinYear(y, mn) <= d /\ d < DayWithinYear(y, mn) + DaysOfMonth(y, mn)

\* Date.prototype.getDate
DateFromTime(t) ==
    LET y == YearFromTime(t)
    IN  t - DayFromYear(y) - DayWithinYear(y, MonthFromTime(t)) + 1

\* Date.prototype.getDay: 1970-01-01 was a Thursday; 0 = Sunday
WeekDay(t) == (t + 4) % 7

(***************************************************************************)
(* validateDateFormat                                                      *)
(***************************************************************************)
Digits == {"0", "1", "2", "3", "4", "5", "6", "7", "8", "9"}

digitValue(c) ==
    CASE c = "0" -> 0 [] c = "1" -> 1 [] c = "2" -> 2 [] c = "3" -> 3 [] c = "4" -> 4
      [] c = "5" -> 5 [] c = "6" -> 6 [] c = "7" -> 7 [] c = "8" -> 8 [] c = "9" -> 9

\* /^\d{4}-\d{2}-\d{2}$/
DATE_FORMAT_REGEX(str) ==
    /\ Len(str) = 10
    /\ \A i \in {1, 2, 3, 4, 6, 7, 9, 10} : str[i] \in Digits
    /\ str[5] = "-"
    /\ str[8] = "-"

\* Number.parseInt(str, 10) of a string of digits
RECURSIVE parseInt(_)
parseInt(str) ==
    IF str = <<>> THEN 0
    ELSE 10 * parseInt(SubSeq(str, 1, Len(str) - 1)) + digitValue(str[Len(str)])

MIN_MONTH == 1
MAX_MONTH == 12

\* null, or which of the four error messages is returned
validateDateFormat(str) ==
    IF ~DATE_FORMAT_REGEX(str) THEN Some("FORMAT")
    ELSE LET parts == split(str, "-")
             year == parseInt(parts[1])
             month == parseInt(parts[2])
             day == parseInt(parts[3])
             maxDay == DateFromTime(NewDate(year, month, 0))
             date == NewDate(year, month - 1, day)
         IN  IF parts[1] = <<>> \/ parts[2] = <<>> \/ parts[3] = <<>> THEN Some("FORMAT")
             ELSE IF month < MIN_MONTH \/ month > MAX_MONTH THEN Some("MONTH")
             ELSE IF day < 1 \/ day > maxDay THEN Some("DAY")
             ELSE IF \/ YearFromTime(date) # year
                     \/ MonthFromTime(date) # month - 1
                     \/ DateFromTime(date) # day
             THEN Some("CALENDAR")
             ELSE NULL

\* one call of validateDateFormat on the string at hand
ValidateDateFormat ==
    /\ ~dateRet.called
    /\ dateRet' = [called |-> TRUE, error |-> validateDateFormat(dateString)]
    /\ UNCHANGED <<dateString, inviteVars, ret, shiftVars, jwtVars, routeVars, loginVars, cacheVars>>

(***************************************************************************)
(* The memoised calendar helpers of the shift calendar.                    *)
(***************************************************************************)
digitChar(n) == CHOOSE c \in Digits : digitValue(c) = n

\* String(n) of an integer
RECURSIVE toString(_)
toString(n) ==
    IF n < 0 THEN <<"-">> \o toString(0 - n)
    ELSE IF n < 10 THEN <<digitChar(n)>>
    ELSE toString(n \div 10) \o <<digitChar(n % 10)>>

\* faulty variant: the key lacks the separator
cacheKey_NoSeparator(year, month) == toString(year) \o toString(month)

\* `${year}-${month}`
cacheKey(year, month) == toString(year) \o <<"-">> \o toString(month)

\* Map.prototype.set
mapSet(map, key, value) == [k \in DOMAIN map \cup {key} |-> IF k = key THEN value ELSE map[k]]

\* new Date(year, month, 0).getDate()
computeDaysInMonth(year, month) == DateFromTime(NewDate(year, month, 0))

\* new Date(year, month - 1, 1).getDay()
computeFirstDayOfWeek(year, month) == WeekDay(NewDate(year, month - 1, 1))

getDaysInMonth(year, month) ==
    LET key == cacheKey(year, month)
    IN  /\ IF key \in DOMAIN daysInMonthCache
           THEN /\ utilRet' = [op |-> "getDaysInMonth", year |-> year, month |-> month,
                               value |-> daysInMonthCache[key]]
                /\ UNCHANGED daysInMonthCache
           ELSE /\ daysInMonthCache' = mapSet(daysInMonthCache, key, computeDaysInMonth(year, month))
                /\ utilRet' = [op |-> "getDaysInMonth", year |-> year, month |-> month,
                               value |-> computeDaysInMonth(year, month)]
        /\ UNCHANGED <<firstDayCache, inviteVars, ret, shiftVars, jwtVars, routeVars, loginVars,
                       dateVars>>

getFirstDayOfWeek(year, month) ==
    LET key == cacheKey(year, month)
    IN  /\ IF key \in DOMAIN firstDayCache
           THEN /\ utilRet' = [op |-> "getFirstDayOfWeek", year |-> year, month |-> month,
                               value |-> firstDayCache[key]]
                /\ UNCHANGED firstDayCache
           ELSE /\ firstDayCache' = mapSet(firstDayCache, key, computeFirstDayOfWeek(year, month))
                /\ utilRet' = [op |-> "getFirstDayOfWeek", year |-> year, month |-> month,
                               value |-> computeFirstDayOfWeek(year, month)]
        /\ UNCHANGED <<daysInMonthCache, inviteVars, ret, shiftVars, jwtVars, routeVars, loginVars,
                       dateVars>>

clearUtilCaches ==
    /\ daysInMonthCache' = <<>>
    /\ firstDayCache' = <<>>
    /\ utilRet' = [op |-> "clearUtilCaches", year |-> 0, month |-> 0, value |-> 0]
    /\ UNCHANGED <<inviteVars, ret, shiftVars, jwtVars, routeVars, loginVars, dateVars>>

(***************************************************************************)
(* Specifications                                                          *)
(***************************************************************************)
vars == <<inviteVars, ret, shiftVars, jwtVars, pageVars>>

\* one instructor is on file, no shift is planned yet
InitShiftTables ==
    /\ shifts = {}
    /\ shiftAssignments = {}
    /\ instructors = {[id |-> 1, lastName |-> "x", status |-> "ACTIVE"]}
    /\ instructorCertifications = {}
    /\ shiftSeq = 0
    /\ instructorSeq = 1

\* no request has reached the department route yet
NoResponse == [status |-> 0, success |-> FALSE, data |-> NULL, message |-> NULL, error |-> NULL]

InitRoute ==
    /\ departments = {}
    /\ findUniqueCalls = <<>>
    /\ response = NoResponse

\* the login page is rendered without props and has not navigated
InitLogin ==
    /\ props = [inviteToken |-> NULL, redirectUrl |-> NULL]
    /\ href = <<>>

\* validateDateFormat has not been called
NoDateRet == [called |-> FALSE, error |-> NULL]

InitDate ==
    /\ dateString = <<>>
    /\ dateRet = NoDateRet

\* both Maps are empty, as after module load
NoUtilRet == [op |-> "none", year |-> 0, month |-> 0, value |-> 0]

InitCaches ==
    /\ daysInMonthCache = <<>>
    /\ firstDayCache = <<>>
    /\ utilRet = NoUtilRet

InitPages == InitRoute /\ InitLogin /\ InitDate /\ InitCaches

\* no session token is at hand
InitSession ==
    /\ nowMs = StartMs
    /\ jwt = EmptyToken
    /\ issued = NoIssue
    /\ jwtRet = NoJwtRet

InitInviteTables ==
    /\ now = StartDay
    /\ invitationTokens = {}
    /\ users = {}
    /\ calls = [c \in Calls |-> IdleCall]

\* the administration of invitations: an empty table, tokens are created and deleted
InitInvite ==
    /\ InitSession
    /\ InitPages
    /\ now = StartDay
    /\ invitationTokens = {}
    /\ users = {}
    /\ calls = [c \in Calls |-> IdleCall]
    /\ ret = NoRet
    /\ InitShiftTables

NextInvite ==
    \/ \E caller \in Callers, input \in ExpiryInputs(now) :
            createInvitationAction(caller, input)
    \/ \E caller \in Callers, token \in TokenInputs : deleteInvitationAction(caller, token)
    \/ Tick

SpecInvite == InitInvite /\ [][NextInvite]_vars

\* the acceptance of one stored invitation by concurrent requests
MaxUsesChoices == {NULL} \cup {Some(n) : n \in 1..MaxUsesLimit}

\* the stored token, a well-formed token that is not stored, a malformed one
AcceptTokenInputs ==
    {TokenString(tokenPrefix, 1), TokenString(tokenPrefix, 2), TokenString("xyz_", 1)}

InitAccept ==
    /\ InitSession
    /\ InitPages
    /\ now = StartDay
    /\ \E maxUses \in MaxUsesChoices, isActive \in BOOLEAN :
         \E usedCount \in 0..(IF maxUses = NULL THEN 1 ELSE Val(maxUses)) :
            invitationTokens =
                {TokenRow(TokenString(tokenPrefix, 1), StartDay + 1, maxUses, usedCount, isActive)}
    /\ users = {}
    /\ calls = [c \in Calls |-> IdleCall]
    /\ ret = NoRet
    /\ InitShiftTables

NextAccept ==
    \/ \E c \in Calls, token \in AcceptTokenInputs, lineUserId \in LineUserIds :
            AcceptStart(c, token, lineUserId)
    \/ \E c \in Calls : AcceptFindToken(c)
    \/ \E c \in Calls : AcceptFindUser(c)
    \/ \E c \in Calls : AcceptUpdateMany(c)
    \/ \E c \in Calls : AcceptCreateUser(c)
    \/ Tick

SpecAccept == InitAccept /\ [][NextAccept]_vars

DescriptionInputs == {NULL} \cup {Some(d) : d \in Descriptions}

\* the planning of shifts, with two instructors on file
InitShift ==
    /\ InitSession
    /\ InitPages
    /\ InitInviteTables
    /\ ret = NoRet
    /\ shifts = {}
    /\ shiftAssignments = {}
    /\ instructors = {[id |-> i, lastName |-> "x", status |-> "ACTIVE"] : i \in {1, 2}}
    /\ instructorCertifications = {}
    /\ shiftSeq = 0
    /\ instructorSeq = 2

NextShift ==
    \/ \E caller \in {"MANAGER", "MEMBER"}, date \in Dates, departmentId \in DepartmentIds,
          shiftTypeId \in ShiftTypeIds, description \in DescriptionInputs,
          force \in BOOLEAN, assignedInstructorIds \in InstructorIdLists :
            createShiftAction(caller, date, departmentId, shiftTypeId, description, force,
                              assignedInstructorIds)
    \/ \E caller \in {"MANAGER", "MEMBER"}, id \in ShiftIdInputs, description \in DescriptionInputs,
          assignedInstructorIds \in {NULL} \cup {Some(q) : q \in InstructorIdLists} :
            updateShiftAction(caller, id, description, assignedInstructorIds)
    \/ \E caller \in {"MANAGER", "MEMBER"}, id \in ShiftIdInputs : deleteShiftAction(caller, id)

SpecShift == InitShift /\ [][NextShift]_vars

\* a manager plans shifts on a calendar that already holds one shift, with
\* any description and any of the two instructors assigned
InitForce ==
    /\ InitSession
    /\ InitPages
    /\ InitInviteTables
    /\ ret = NoRet
    /\ \E description \in DescriptionInputs, rows \in SUBSET assignmentRows(1, <<1, 2>>) :
            /\ shifts = {[id |-> 1, date |-> 1, departmentId |-> "d1", shiftTypeId |-> "t1",
                          description |-> description]}
            /\ shiftAssignments = rows
    /\ instructors = {[id |-> i, lastName |-> "x", status |-> "ACTIVE"] : i \in {1, 2}}
    /\ instructorCertifications = {}
    /\ shiftSeq = 1
    /\ instructorSeq = 2

NextForce ==
    \/ \E date \in Dates, description \in DescriptionInputs, force \in BOOLEAN,
          assignedInstructorIds \in InstructorIdLists :
            createShiftAction("MANAGER", date, "d1", "t1", description, force,
                              assignedInstructorIds)
    \/ \E id \in ShiftIdInputs : deleteShiftAction("MANAGER", id)

SpecForce == InitForce /\ [][NextForce]_vars

\* the administration of instructors; instructor 1 is on file and assigned
\* to the one planned shift
InitInstructor ==
    /\ InitSession
    /\ InitPages
    /\ InitInviteTables
    /\ ret = NoRet
    /\ shifts = {[id |-> 1, date |-> 1, departmentId |-> "d1", shiftTypeId |-> "t1",
                  description |-> NULL]}
    /\ shiftAssignments = {[shiftId |-> 1, instructorId |-> 1]}
    /\ instructors = {[id |-> 1, lastName |-> "x", status |-> "ACTIVE"]}
    /\ \E rows \in SUBSET certificationRows(1, <<"c1">>) : instructorCertifications = rows
    /\ shiftSeq = 1
    /\ instructorSeq = 1

NextInstructor ==
    \/ \E caller \in Callers, lastName \in LastNames, status \in Statuses,
          certificationIds \in CertificationIdLists :
            createInstructorAction(caller, lastName, status, certificationIds)
    \/ \E caller \in Callers, id \in InstructorIdInputs, lastName \in LastNames,
          status \in Statuses, certificationIds \in CertificationIdLists :
            updateInstructorAction(caller, id, lastName, status, certificationIds)
    \/ \E caller \in Callers, id \in InstructorIdInputs : deleteInstructorAction(caller, id)

SpecInstructor == InitInstructor /\ [][NextInstructor]_vars

\* every mutating action that asks who is calling, from empty tables, each
\* with a few representative requests
InitAdmin ==
    /\ InitSession
    /\ InitPages
    /\ InitInviteTables
    /\ ret = NoRet
    /\ shifts = {}
    /\ shiftAssignments = {}
    /\ instructors = {}
    /\ instructorCertifications = {}
    /\ shiftSeq = 0
    /\ instructorSeq = 0

\* requests of callers the role check turns away
RefusedRequest(caller) ==
    \/ \E input \in ExpiryInputs(now) : createInvitationAction(caller, input)
    \/ \E token \in TokenInputs : deleteInvitationAction(caller, token)
    \/ \E date \in Dates, description \in {NULL, Some("a")}, force \in BOOLEAN,
          assignedInstructorIds \in {<<>>, <<1>>} :
            createShiftAction(caller, date, "d1", "t1", description, force, assignedInstructorIds)
    \/ \E id \in ShiftIdInputs, description \in {NULL, Some("a")},
          assignedInstructorIds \in {NULL, Some(<<>>), Some(<<1>>)} :
            updateShiftAction(caller, id, description, assignedInstructorIds)
    \/ \E id \in ShiftIdInputs : deleteShiftAction(caller, id)
    \/ \E lastName \in LastNames, status \in Statuses, certificationIds \in {<<>>, <<"c1">>} :
            createInstructorAction(caller, lastName, status, certificationIds)
    \/ \E id \in InstructorIdInputs, lastName \in LastNames, status \in Statuses,
          certificationIds \in {<<>>, <<"c1">>} :
            updateInstructorAction(caller, id, lastName, status, certificationIds)
    \/ \E id \in InstructorIdInputs : deleteInstructorAction(caller, id)

\* requests of managers and administrators, which fill the tables
GrantedRequest(caller) ==
    \/ createInvitationAction(caller, NULL)
    \/ createShiftAction(caller, 1, "d1", "t1", Some("a"), FALSE, <<1>>)
    \/ \E id \in ShiftIdInputs : deleteShiftAction(caller, id)
    \/ createInstructorAction(caller, "x", "ACTIVE", <<"c1">>)
    \/ \E id \in InstructorIdInputs : deleteInstructorAction(caller, id)

NextAdmin ==
    \/ \E caller \in {"MEMBER", "ANONYMOUS"} : RefusedRequest(caller)
    \/ \E caller \in {"ADMIN", "MANAGER"} : GrantedRequest(caller)

SpecAdmin == InitAdmin /\ [][NextAdmin]_vars

\* requests to the department route, over any stored subset of the departments
InitDepartment ==
    /\ InitSession
    /\ InitInviteTables
    /\ InitShiftTables
    /\ ret = NoRet
    /\ \E rows \in SUBSET DepartmentRows : departments = rows
    /\ findUniqueCalls = <<>>
    /\ response = NoResponse
    /\ InitLogin /\ InitDate /\ InitCaches

NextDepartment ==
    \E auth \in AuthResults, id \in DepartmentIdInputs, dbFails \in BOOLEAN :
        /\ Len(findUniqueCalls) < MaxQueries
        /\ GET(auth, id, dbFails)

SpecDepartment == InitDepartment /\ [][NextDepartment]_vars

\* invitation tokens: a plain one and one of characters that need escaping
InviteTokenInputs ==
    {<<"i", "n", "v", "_", "a", "1">>, <<"a", "+", "=", "&", "b">>, <<"%", "2", "6">>}

RedirectUrlInputs ==
    {<<"/">>, <<"/", "a", "?", "d", "=", "1">>, <<"/", "a", "&", "i", "n", "v", "i", "t", "e", "=", "x">>,
     <<"/", " ", "%">>}

\* the login page, rendered with any props and clicked
InitPageClient ==
    /\ InitSession
    /\ InitInviteTables
    /\ InitShiftTables
    /\ ret = NoRet
    /\ InitLogin
    /\ InitRoute /\ InitDate /\ InitCaches

NextPageClient ==
    \/ \E inviteToken \in {NULL} \cup {Some(t) : t \in InviteTokenInputs},
          redirectUrl \in {NULL} \cup {Some(u) : u \in RedirectUrlInputs} :
            render(inviteToken, redirectUrl)
    \/ handleLineLogin

SpecLogin == InitPageClient /\ [][NextPageClient]_vars

\* year, month and day fields: in and out of range, short, not a number
YearFields ==
    {<<"0", "0", "0", "0">>, <<"0", "0", "5", "0">>, <<"0", "0", "9", "9">>,
     <<"0", "1", "0", "0">>, <<"1", "9", "0", "0">>, <<"2", "0", "0", "0">>,
     <<"2", "0", "2", "3">>, <<"2", "0", "2", "4">>, <<"9", "9", "9", "9">>,
     <<"2", "0", "2">>, <<"2", "0", "2", "5", "0">>}
MonthFields ==
    {<<"0", "0">>, <<"0", "1">>, <<"0", "2">>, <<"0", "4">>, <<"1", "2">>, <<"1", "3">>,
     <<"1">>, <<"0", "a">>}
DayFields ==
    {<<"0", "0">>, <<"0", "1">>, <<"2", "8">>, <<"2", "9">>, <<"3", "0">>, <<"3", "1">>,
     <<"3", "2">>, <<"5">>, <<" ", "1">>}
Separators == {"-", "/"}

DateStringInputs ==
    {y \o <<sep>> \o m \o <<sep>> \o d :
        y \in YearFields, m \in MonthFields, d \in DayFields, sep \in Separators}
    \cup {<<>>, <<"0", "1", "-", "1", "3", "-", "2", "0", "2", "5">>,
          <<"2", "0", "2", "4", "-", "0", "2", "-", "2", "9", "-">>}

\* validateDateFormat is handed any of the strings
InitValidate ==
    /\ InitSession
    /\ InitInviteTables
    /\ InitShiftTables
    /\ ret = NoRet
    /\ dateString \in DateStringInputs
    /\ dateRet = NoDateRet
    /\ InitRoute /\ InitLogin /\ InitCaches

SpecDate == InitValidate /\ [][ValidateDateFormat]_vars

\* (year, month) arguments: leap and common Februaries, a December, a month
\* past December, years below 100, and two pairs whose digits run together alike
CalendarInputs == {<<2024, 2>>, <<2023, 2>>, <<2024, 13>>, <<1, 12>>, <<11, 2>>}

\* the calendar helpers called in any order, from empty caches
InitCalendar ==
    /\ InitSession
    /\ InitInviteTables
    /\ InitShiftTables
    /\ ret = NoRet
    /\ InitCaches
    /\ InitRoute /\ InitLogin /\ InitDate

NextCalendar ==
    \/ \E a \in CalendarInputs : getDaysInMonth(a[1], a[2])
    \/ \E a \in CalendarInputs : getFirstDayOfWeek(a[1], a[2])
    \/ clearUtilCaches

SpecCalendar == InitCalendar /\ [][NextCalendar]_vars

\* one session token: issued here or presented from outside, then verified
\* and asked about its refresh as the clock advances
InitJwt ==
    /\ InitSession
    /\ InitPages
    /\ InitInviteTables
    /\ InitShiftTables
    /\ ret = NoRet

NextJwt ==
    \/ \E payload \in PayloadInputs : GenerateJwt(payload)
    \/ \E token \in PresentedTokens : PresentJwt(token)
    \/ VerifyJwt
    \/ ShouldRefreshToken
    \/ TickHalfSecond
    \/ TickSixHours

SpecJwt == InitJwt /\ [][NextJwt]_vars

(***************************************************************************)
(* Invitation claims                                                       *)
(***************************************************************************)
PassedCalls(token) == {c \in Calls : calls[c].token = token /\ calls[c].incremented}

\* C1: on a token whose maxUses is a non-null N, under any interleaving of
\* concurrent acceptInvitationAction calls, usedCount never exceeds N, at
\* most N calls get past the atomic update, and every finished call that did
\* not get past it returned a failure and created no user.
C1_UsedCountNeverExceedsMaxUses ==
    \A t \in invitationTokens :
        t.maxUses # NULL =>
            /\ t.usedCount <= Val(t.maxUses)
            /\ Cardinality(PassedCalls(t.token)) <= Val(t.maxUses)
            /\ \A c \in Calls :
                    (calls[c].pc = "done" /\ calls[c].token = t.token /\ ~calls[c].incremented)
                        => (calls[c].result # "ok" /\ ~calls[c].created)

\* two calls raced for the last use of a limited token: one took it, the
\* other was turned away by the conditional update
C1_Witness ==
    \E t \in invitationTokens, c, d \in Calls :
        /\ t.maxUses # NULL /\ t.usedCount = Val(t.maxUses)
        /\ calls[c].token = t.token /\ calls[c].incremented
        /\ calls[d].token = t.token /\ calls[d].result = "NO_LONGER_USABLE"

\* C2: after any acceptInvitationAction call completes, with success or with
\* failure, its usedCount increment and its user creation have either both
\* taken effect or neither has.
C2_IncrementAndUserCreationAtomic ==
    \A c \in Calls : calls[c].pc = "done" => (calls[c].incremented <=> calls[c].created)

Rejected(c) ==
    /\ calls'[c].pc = "done"
    /\ calls'[c].result \notin {"ok", "none"}
    /\ ~calls'[c].incremented /\ ~calls'[c].created
    /\ invitationTokens' = invitationTokens
    /\ users' = users

\* C4: acceptInvitationAction returns a failure, creates no user and leaves
\* usedCount unchanged whenever the token lacks the prefix, is not found, is
\* inactive, has expiresAt <= now, has usedCount >= maxUses (maxUses
\* non-null), or a user with the lineUserId already exists; a call that has
\* returned does nothing more.
C4_InvalidAcceptChangesNothing ==
    [][\A c \in Calls :
        LET k == calls[c]
            found == findToken(invitationTokens, k.token)
        IN  /\ (k.pc = "idle" /\ calls'[c].pc # "idle"
                    /\ ~startsWith(calls'[c].token, tokenPrefix)) => Rejected(c)
            /\ (k.pc = "findToken" /\ calls'[c] # k
                    /\ \/ found = {}
                       \/ \E t \in found :
                            \/ ~t.isActive
                            \/ t.expiresAt <= k.now
                            \/ (t.maxUses # NULL /\ t.usedCount >= Val(t.maxUses)))
                  => Rejected(c)
            /\ (k.pc = "findUser" /\ calls'[c] # k
                    /\ \E u \in users : u.lineUserId = k.lineUserId) => Rejected(c)
            /\ (k.pc = "done" => calls'[c] = k)
    ]_vars

\* one call was turned away for the use limit, another for the expiry
C4_Witness ==
    \E c, d \in Calls :
        /\ calls[c].pc = "done" /\ calls[c].result = "MAX_USES"
        /\ calls[d].pc = "done" /\ calls[d].result = "EXPIRED"

\* C3: when createInvitationAction succeeds every token that was active
\* before the call is inactive afterwards, and after any sequence of
\* createInvitationAction and deleteInvitationAction calls at most one
\* invitation token is active.
C3_AtMostOneActiveToken ==
    [][/\ \A caller \in Callers, input \in ExpiryInputs(now) :
            (ret'.success /\ createInvitationAction(caller, input))
                => \A t \in ActiveTokens(invitationTokens) :
                      \E n \in invitationTokens' : n.token = t.token /\ ~n.isActive
       /\ Cardinality(ActiveTokens(invitationTokens)) <= 1
       /\ Cardinality(ActiveTokens(invitationTokens')) <= 1
    ]_vars

\* a second token was created while the first was still active
C3_Witness ==
    /\ Cardinality(invitationTokens) >= 2
    /\ Cardinality(ActiveTokens(invitationTokens)) = 1
    /\ ret.op = "createInvitation" /\ ret.success

\* C6: createInvitationAction creates a token only when its expiry satisfies
\* now < expiresAt <= now + 1 month, an omitted expiresAt meaning now + 7
\* days; for an expiry in the past, equal to now or more than one month
\* ahead it returns a failure, creates no token and deactivates none.
C6_ExpiryWindow ==
    [][/\ \A caller \in Callers, input \in ExpiryInputs(now) :
            LET e == IF input = NULL THEN now + 7 ELSE Val(input)
            IN  (invitationTokens' # invitationTokens /\ createInvitationAction(caller, input))
                    => /\ now < e /\ e <= setMonthPlusOne(now)
                       /\ \E n \in invitationTokens' \ invitationTokens :
                            n.expiresAt = e /\ n.isActive
       /\ \/ (~ret'.success /\ invitationTokens' = invitationTokens)
          \/ \A caller \in Callers, input \in ExpiryInputs(now) :
                LET e == IF input = NULL THEN now + 7 ELSE Val(input)
                IN  ~((e <= now \/ e > setMonthPlusOne(now))
                        /\ createInvitationAction(caller, input))
    ]_vars

\* a token was created that expires exactly one month ahead
C6_Witness ==
    /\ ret.op = "createInvitation" /\ ret.success
    /\ \E t \in ActiveTokens(invitationTokens) : t.expiresAt = setMonthPlusOne(now)

(***************************************************************************)
(* Session token claims                                                    *)
(***************************************************************************)
\* the claims set carried by the token at hand
ClaimsOfJwt == decodePayload(jwt.payload)
HasClaim(p, name, value) == name \in DOMAIN p /\ p[name] = value
IsString(p, name) == name \in DOMAIN p /\ p[name].t = "string"

\* C7: verifyJwt returns success only for a token that is correctly signed
\* with the configured secret, carries issuer "fuyugyo" and audience
\* "fuyugyo-users", is not expired, and whose payload has string userId and
\* lineUserId, a role in {ADMIN, MANAGER, MEMBER} and isActive true; it never
\* returns success for a payload with isActive false, and the empty token
\* yields "Token is required".
C7_VerifyJwtSuccessOnlyForValidToken ==
    jwtRet.op = "verifyJwt" =>
        /\ jwtRet.success =>
            /\ jwt.form = "compact"
            /\ jwt.sig.key = "secret" /\ jwt.sig.over = jwt.payload
            /\ HasClaim(ClaimsOfJwt, "iss", Str("fuyugyo"))
            /\ HasClaim(ClaimsOfJwt, "aud", Str("fuyugyo-users"))
            /\ "exp" \in DOMAIN ClaimsOfJwt =>
                    /\ ClaimsOfJwt["exp"].t = "number"
                    /\ ClaimsOfJwt["exp"].n * 1000 > jwtRet.at
            /\ IsString(ClaimsOfJwt, "userId") /\ IsString(ClaimsOfJwt, "lineUserId")
            /\ IsString(ClaimsOfJwt, "role")
            /\ ClaimsOfJwt["role"].s \in {"ADMIN", "MANAGER", "MEMBER"}
            /\ HasClaim(ClaimsOfJwt, "isActive", Bool(TRUE))
        /\ (jwt.form = "compact" /\ HasClaim(ClaimsOfJwt, "isActive", Bool(FALSE)))
                => ~jwtRet.success
        /\ jwt.form = "empty" => (~jwtRet.success /\ jwtRet.error = "Token is required")

\* a token that was not issued here but is valid in every respect was accepted
C7_Witness ==
    /\ jwtRet.op = "verifyJwt" /\ jwtRet.success
    /\ ~issued.done

\* the instant at which the token issued last expires: 48 hours after the
\* second in which it was issued
ExpiryOfIssued == (issued.at \div 1000) * 1000 + 48 * 60 * 60 * 1000

\* C8: a token produced by generateJwt for a payload with a valid role and
\* isActive true is accepted by verifyJwt with the same userId, lineUserId,
\* displayName, role and isActive at every time before its expiry, 48 hours
\* after issue, and rejected with "Token has expired" at every time after it.
C8_IssueVerifyRoundTrip ==
    (/\ issued.done /\ jwtRet.op = "verifyJwt"
     /\ issued.payload.role.s \in {"ADMIN", "MANAGER", "MEMBER"}
     /\ issued.payload.isActive = Bool(TRUE))
        => /\ jwtRet.at < ExpiryOfIssued =>
                /\ jwtRet.success
                /\ \A k \in {"userId", "lineUserId", "displayName", "role", "isActive"} :
                        HasClaim(jwtRet.payload, k, issued.payload[k])
           /\ jwtRet.at > ExpiryOfIssued =>
                (~jwtRet.success /\ jwtRet.error = "Token has expired")

\* an issued token was verified after its 48 hours and found expired
C8_Witness ==
    /\ issued.done /\ issued.payload.isActive = Bool(TRUE)
    /\ jwtRet.op = "verifyJwt" /\ jwtRet.error = "Token has expired"
    /\ jwtRet.at > ExpiryOfIssued

\* the validity left to the token at hand at the time of the last call, in ms
TimeLeft == ClaimsOfJwt["exp"].n * 1000 - jwtRet.at
NumericExp == "exp" \in DOMAIN ClaimsOfJwt /\ ClaimsOfJwt["exp"].t = "number"

\* C9: shouldRefreshToken returns true exactly when the token cannot be
\* decoded or has no exp, is already expired, or has less than 6 hours of
\* validity left, and false when 6 hours or more remain; for a fixed token,
\* once it has returned true it returns true at every later time.
C9_ShouldRefreshCharacterised ==
    /\ [](jwtRet.op = "shouldRefreshToken" =>
            /\ jwtRet.refresh <=>
                \/ ~decodeJwt(jwt).success
                \/ "exp" \notin DOMAIN ClaimsOfJwt
                \/ NumericExp /\ TimeLeft < 0
                \/ NumericExp /\ TimeLeft < 6 * 60 * 60 * 1000
            /\ (decodeJwt(jwt).success /\ NumericExp /\ TimeLeft >= 6 * 60 * 60 * 1000)
                    => ~jwtRet.refresh)
    /\ [][(/\ jwtRet.op = "shouldRefreshToken" /\ jwtRet.refresh
           /\ jwtRet'.op = "shouldRefreshToken" /\ jwt' = jwt)
            => jwtRet'.refresh]_vars

\* an issued token that is still valid has less than six hours left, and a
\* refresh is advised
C9_Witness ==
    /\ issued.done /\ issued.payload.isActive = Bool(TRUE)
    /\ jwtRet.op = "shouldRefreshToken" /\ jwtRet.refresh
    /\ jwtRet.at < ExpiryOfIssued

(***************************************************************************)
(* Authorization and shift claims                                          *)
(***************************************************************************)
Tables ==
    <<invitationTokens, users, shifts, shiftAssignments, instructors, instructorCertifications>>

\* the actions that check the role themselves, and those that rely on
\* requireManagerAuth
InvitationActions == {"createInvitation", "deleteInvitation"}
ManagerActions ==
    {"createShift", "updateShift", "deleteShift",
     "createInstructor", "updateInstructor", "deleteInstructor"}

\* C5: every mutating server action other than acceptInvitationAction checks
\* authorization before any database write: createInvitationAction and
\* deleteInvitationAction called by someone whose role is neither ADMIN nor
\* MANAGER, and the shift and instructor create/update/delete actions when
\* requireManagerAuth rejects, return a failure, and no record is created,
\* changed or deleted.
C5_UnauthorizedCallsWriteNothing ==
    [][(\/ ret'.op \in InvitationActions /\ ret'.caller \notin {"ADMIN", "MANAGER"}
        \/ ret'.op \in ManagerActions /\ ~requireManagerAuth(ret'.caller))
            => (~ret'.success /\ Tables' = Tables)
    ]_vars

\* a MEMBER was refused the deletion of an invitation while tokens, shifts
\* and instructors were on file
C5_Witness ==
    /\ ret = Failure("deleteInvitation", "MEMBER", "FORBIDDEN")
    /\ invitationTokens # {} /\ shifts # {} /\ instructors # {}

\* C10: createShiftAction with force=false, called by a manager for a (date,
\* departmentId, shiftTypeId) on which a shift exists, returns {success:false,
\* error:"DUPLICATE_SHIFT"} and leaves the shift, its description and its
\* instructor assignments unchanged.
C10_DuplicateShiftRejected ==
    [][\/ ret'.op # "createShift"
       \/ ret'.caller \notin {"ADMIN", "MANAGER"}
       \/ /\ ret'.error = "DUPLICATE_SHIFT" /\ ~ret'.success
          /\ shifts' = shifts /\ shiftAssignments' = shiftAssignments
       \/ \A date \in {s.date : s \in shifts}, description \in DescriptionInputs,
             assignedInstructorIds \in InstructorIdLists :
                ~createShiftAction(ret'.caller, date, "d1", "t1", description, FALSE,
                                   assignedInstructorIds)
    ]_vars

\* a duplicate was refused for a shift that has a description and assignments
C10_Witness ==
    /\ ret = Failure("createShift", "MANAGER", "DUPLICATE_SHIFT")
    /\ \E s \in shifts : s.description # NULL /\ \E a \in shiftAssignments : a.shiftId = s.id

\* the assignments of one shift
AssignmentsOf(rows, shiftId) == {a \in rows : a.shiftId = shiftId}

\* C11: createShiftAction with force=true, called by a manager for a (date,
\* departmentId, shiftTypeId) on which a shift exists, creates no new shift
\* row: the existing shift keeps its id, its description becomes the given
\* one, or stays when none is given, and on success the assignments of the
\* shift are exactly assignedInstructorIds, all earlier ones removed; other
\* shifts and their assignments are untouched.
C11_ForceUpdatesExistingShift ==
    [][\/ ret'.op # "createShift"
       \/ ~requireManagerAuth(ret'.caller)
       \/ \A s \in shifts, description \in DescriptionInputs,
             assignedInstructorIds \in InstructorIdLists :
                createShiftAction(ret'.caller, s.date, s.departmentId, s.shiftTypeId,
                                  description, TRUE, assignedInstructorIds)
                    => /\ Cardinality(shifts') = Cardinality(shifts)
                       /\ shiftSeq' = shiftSeq
                       /\ shifts' \ shifts \subseteq
                            {[s EXCEPT !.description =
                                IF description = NULL THEN s.description ELSE description]}
                       /\ shifts \ shifts' \subseteq {s}
                       /\ \E t \in shifts' :
                            /\ t.id = s.id
                            /\ t.description =
                                    IF description = NULL THEN s.description ELSE description
                       /\ \A o \in shifts \ {s} :
                            AssignmentsOf(shiftAssignments', o.id)
                                = AssignmentsOf(shiftAssignments, o.id)
                       /\ ret'.success =>
                            AssignmentsOf(shiftAssignments', s.id) =
                                {[shiftId |-> s.id, instructorId |-> assignedInstructorIds[i]] :
                                    i \in 1..Len(assignedInstructorIds)}
    ]_vars

\* every shift id has been handed out and the last shift created is deleted
\* again, so the createShiftAction that just succeeded was a forced one; the
\* shift it rewrote has a description and instructors assigned
C11_Witness ==
    /\ ret = Success("createShift", "MANAGER")
    /\ shiftSeq = MaxShiftIds
    /\ findShiftById(MaxShiftIds) = {}
    /\ \E s \in shifts : s.description # NULL /\ AssignmentsOf(shiftAssignments, s.id) # {}
\* C12: a successful deleteShiftAction removes exactly one shift row together
\* with all assignments of that shift and no other assignment, and in every
\* reachable state every shift assignment refers to an existing shift.
C12_DeleteCascades ==
    /\ [](\A a \in shiftAssignments : findShiftById(a.shiftId) # {})
    /\ [][(ret'.op = "deleteShift" /\ ret'.success)
            => \E gone \in shifts :
                  /\ shifts' = shifts \ {gone}
                  /\ shiftAssignments' = shiftAssignments \ AssignmentsOf(shiftAssignments, gone.id)
                  /\ AssignmentsOf(shiftAssignments', gone.id) = {}
       ]_vars

\* a shift has been deleted while another shift keeps its assignments
C12_Witness ==
    /\ ret = Success("deleteShift", "MANAGER")
    /\ Cardinality(shifts) < shiftSeq
    /\ \E s \in shifts : Cardinality(AssignmentsOf(shiftAssignments, s.id)) = 2

\* C13: deleteInstructorAction deletes logically: no instructor row appears
\* or disappears, the only change to a row is its status becoming INACTIVE,
\* on success one row is INACTIVE afterwards with its other fields as before
\* and every other row is as it was, on failure no row changes, and the
\* certification links, the shifts and the shift assignments are unchanged.
C13_DeleteInstructorIsLogical ==
    [][ret'.op = "deleteInstructor"
        => /\ instructorCertifications' = instructorCertifications
           /\ shiftAssignments' = shiftAssignments
           /\ shifts' = shifts
           /\ instructorSeq' = instructorSeq
           /\ Cardinality(instructors') = Cardinality(instructors)
           /\ \A i \in instructors :
                 i \in instructors' \/ [i EXCEPT !.status = "INACTIVE"] \in instructors'
           /\ Cardinality(instructors \ instructors') <= 1
           /\ ret'.success => \E i \in instructors :
                                  /\ [i EXCEPT !.status = "INACTIVE"] \in instructors'
                                  /\ instructors' \ {[i EXCEPT !.status = "INACTIVE"]}
                                        = instructors \ {i}
           /\ ~ret'.success => instructors' = instructors
    ]_vars

\* instructor 1 has been deleted and still has its certification link and its
\* shift assignment
C13_Witness ==
    /\ ret = Success("deleteInstructor", "MANAGER")
    /\ \E i \in instructors : i.id = 1 /\ i.status = "INACTIVE"
    /\ [shiftId |-> 1, instructorId |-> 1] \in shiftAssignments
    /\ \E r \in instructorCertifications : r.instructorId = 1

\* C14: GET /api/departments/[id] decides in this order: a failed
\* authentication gives 401 with the authentication error and no query; an
\* empty id gives 404 "Resource not found" and no query; a rejected query
\* gives 500 "Internal server error"; no matching row gives 404 "Resource
\* not found"; otherwise 200 with the row, success true and no error. Every
\* response other than 200 has data null and success false.
C14_DepartmentRouteDecisionOrder ==
    [][\A auth \in AuthResults, id \in DepartmentIdInputs, dbFails \in BOOLEAN :
          GET(auth, id, dbFails) =>
            LET queried == findUniqueCalls' # findUniqueCalls
                stored == {d \in departments : d.id = id}
            IN  /\ ~auth.success
                     => response'.status = 401 /\ response'.error = auth.error /\ ~queried
                /\ auth.success /\ id = ""
                     => /\ response'.status = 404
                        /\ response'.error = Some("Resource not found")
                        /\ ~queried
                /\ auth.success /\ id # "" /\ dbFails
                     => /\ response'.status = 500
                        /\ response'.error = Some("Internal server error")
                /\ auth.success /\ id # "" /\ ~dbFails /\ stored = {}
                     => /\ response'.status = 404
                        /\ response'.error = Some("Resource not found")
                /\ auth.success /\ id # "" /\ ~dbFails /\ stored # {}
                     => /\ response'.status = 200
                        /\ response'.success
                        /\ response'.data = stored
                        /\ response'.error = NULL
                /\ response'.status \in {200, 401, 404, 500}
                /\ response'.status # 200 => response'.data = NULL /\ ~response'.success
    ]_vars

\* an authenticated request with an empty id was answered 404 without a query
\* while departments are stored
C14_Witness ==
    /\ response.status = 404
    /\ findUniqueCalls = <<>>
    /\ departments = DepartmentRows

\* C15: a click on the login button navigates to /api/auth/line/login with a
\* redirect parameter that is the given redirectUrl, or "/" when none is
\* given, and with an invite parameter equal to the given inviteToken
\* exactly when one was given; without one there is no invite parameter.
C15_InviteTokenReachesLineLogin ==
    [][href' # href =>
          LET params == searchParams(search(href'))
          IN  /\ pathname(href') = LOGIN_PATH
              /\ searchParamsGet(params, REDIRECT)
                    = Some(IF props.redirectUrl = NULL THEN <<"/">> ELSE Val(props.redirectUrl))
              /\ searchParamsGet(params, INVITE) = props.inviteToken
              /\ props.inviteToken = NULL => \A i \in 1..Len(params) : params[i].name # INVITE
    ]_vars

\* the page was rendered with a token of characters that need escaping and
\* with a redirect that itself carries "&invite=", and has navigated
C15_Witness ==
    /\ props.inviteToken = Some(<<"a", "+", "=", "&", "b">>)
    /\ props.redirectUrl = Some(<<"/", "a", "&", "i", "n", "v", "i", "t", "e", "=", "x">>)
    /\ Len(href) > Len(LOGIN_PATH)
    /\ searchParamsGet(searchParams(search(href)), INVITE) = props.inviteToken

\* a string of the form YYYY-MM-DD, zero padded, with a month in 01-12 and a
\* day that exists in that month of that year (February 29 in leap years only)
IsCalendarDateString(str) ==
    /\ Len(str) = 10
    /\ \A i \in {1, 2, 3, 4, 6, 7, 9, 10} : str[i] \in Digits
    /\ str[5] = "-" /\ str[8] = "-"
    /\ LET y == 1000 * digitValue(str[1]) + 100 * digitValue(str[2])
                  + 10 * digitValue(str[3]) + digitValue(str[4])
           m == 10 * digitValue(str[6]) + digitValue(str[7])
           d == 10 * digitValue(str[9]) + digitValue(str[10])
           leap == (y % 4 = 0 /\ y % 100 # 0) \/ y % 400 = 0
       IN  /\ m \in 1..12
           /\ d >= 1
           /\ d <= (CASE m = 2 -> IF leap THEN 29 ELSE 28
                      [] m \in {4, 6, 9, 11} -> 30
                      [] OTHER -> 31)

\* C16: validateDateFormat returns null exactly for the strings of the form
\* YYYY-MM-DD with zero padding, a year in 0000-9999, a month in 01-12 and a
\* day that exists in that month; every other string yields an error message.
C16_NullExactlyForCalendarDates ==
    dateRet.called => (dateRet.error = NULL <=> IsCalendarDateString(dateString))

\* C17: after any sequence of getDaysInMonth, getFirstDayOfWeek and
\* clearUtilCaches calls, the value a helper returned is the value its
\* uncached computation gives for the same (year, month), and every entry of
\* either cache holds the value of its own function for its key.
C17_MemoisedEqualsFresh ==
    /\ utilRet.op = "getDaysInMonth"
         => utilRet.value = DateFromTime(NewDate(utilRet.year, utilRet.month, 0))
    /\ utilRet.op = "getFirstDayOfWeek"
         => utilRet.value = WeekDay(NewDate(utilRet.year, utilRet.month - 1, 1))
    /\ \A a \in CalendarInputs :
          LET key == toString(a[1]) \o <<"-">> \o toString(a[2])
          IN  /\ key \in DOMAIN daysInMonthCache
                   => daysInMonthCache[key] = DateFromTime(NewDate(a[1], a[2], 0))
              /\ key \in DOMAIN firstDayCache
                   => firstDayCache[key] = WeekDay(NewDate(a[1], a[2] - 1, 1))

\* getFirstDayOfWeek has answered for February 2024 while the cache of
\* getDaysInMonth holds every input, among them one under the same key
C17_Witness ==
    /\ utilRet = [op |-> "getFirstDayOfWeek", year |-> 2024, month |-> 2, value |-> 4]
    /\ Cardinality(DOMAIN daysInMonthCache) = Cardinality(CalendarInputs)
    /\ daysInMonthCache[<<"2", "0", "2", "4", "-", "2">>] = 29
    /\ DOMAIN firstDayCache = {<<"2", "0", "2", "4", "-", "2">>}

====
